---------------------------- MODULE Spec2Model ----------------------------
(***************************************************************************)
(* OrcaNet training utilities: the batch generator over h5 files, the      *)
(* label encoders, the zero-centering helpers and the model evaluation     *)
(* loop, as state machines and operators translated from                   *)
(*   src/orcanet/utilities/nn_utilities.py and src/orcanet/eval_nn.py.     *)
(*                                                                         *)
(* Python containers are 0-based; sequences here are 1-based, so element k *)
(* of a Python list or array is element k+1 of the sequence modelling it.  *)
(* Row r of a dataset is identified by its index r (0-based, as in h5py).  *)
(***************************************************************************)
EXTENDS Integers, Sequences, FiniteSets, TLC

\* ------------------------------------------------------------------ bounds

\* Largest number of rows of an h5 file.
MaxRows == 3

\* Largest batchsize.
MaxBatch == 2

\* Number of passes over the files the endless generator is followed for.
MaxPasses == 2

\* ----------------------------------------------------------------- helpers

None == "None"

Min(a, b) == IF a < b THEN a ELSE b

RECURSIVE Prod(_)
Prod(s) == IF s = <<>> THEN 1 ELSE Head(s) * Prod(Tail(s))

\* The row indices of the h5py slice dataset[start : stop] of a dataset with len rows:
\* the rows start .. min(stop, len) - 1, none when start >= len.
Slice(len, start, stop) ==
    LET hi == Min(stop, len)
    IN  IF hi <= start THEN <<>> ELSE [k \in 1..(hi - start) |-> start + k - 1]

SeqToSet(s) == {s[k] : k \in 1..Len(s)}

\* ---------------------------------------------- get_dimensions_encoding

\* The entries of s that are not 1, in order.
RECURSIVE NotOne(_)
NotOne(s) ==
    IF s = <<>> THEN <<>>
    ELSE IF Head(s) = 1 THEN NotOne(Tail(s)) ELSE <<Head(s)>> \o NotOne(Tail(s))

\* The number of entries of s that are 1.
RECURSIVE CountOnes(_)
CountOnes(s) ==
    IF s = <<>> THEN 0 ELSE (IF Head(s) = 1 THEN 1 ELSE 0) + CountOnes(Tail(s))

\* A dimensions tuple that drops the dimensions of one bin and forgets the trailing
\* channel axis of the projected data.
GetDimensionsEncodingNoChannel(n_bins, batchsize) == <<batchsize>> \o NotOne(n_bins)

\* get_dimensions_encoding(n_bins, batchsize): the if / elif cascade of the source.
GetDimensionsEncoding(n_bins, batchsize) ==
    LET n_bins_x == n_bins[1]
        n_bins_y == n_bins[2]
        n_bins_z == n_bins[3]
        n_bins_t == n_bins[4]
    IN  IF n_bins_x = 1 THEN
            IF n_bins_y = 1 THEN <<batchsize, n_bins_z, n_bins_t, 1>>
            ELSE IF n_bins_z = 1 THEN <<batchsize, n_bins_y, n_bins_t, 1>>
            ELSE IF n_bins_t = 1 THEN <<batchsize, n_bins_y, n_bins_z, 1>>
            ELSE <<batchsize, n_bins_y, n_bins_z, n_bins_t, 1>>
        ELSE IF n_bins_y = 1 THEN
            IF n_bins_z = 1 THEN <<batchsize, n_bins_x, n_bins_t, 1>>
            ELSE IF n_bins_t = 1 THEN <<batchsize, n_bins_x, n_bins_z, 1>>
            ELSE <<batchsize, n_bins_x, n_bins_z, n_bins_t, 1>>
        ELSE IF n_bins_z = 1 THEN
            IF n_bins_t = 1 THEN <<batchsize, n_bins_x, n_bins_y, 1>>
            ELSE <<batchsize, n_bins_x, n_bins_y, n_bins_t, 1>>
        ELSE IF n_bins_t = 1 THEN <<batchsize, n_bins_x, n_bins_y, n_bins_z, 1>>
        ELSE <<batchsize, n_bins_x, n_bins_y, n_bins_z, n_bins_t>>

\* ------------------------------------------------------- encode_targets

\* One-hot array of length n with a 1 at the 0-based index k.
OneHot(n, k) == [j \in 1..n |-> IF j = k + 1 THEN 1 ELSE 0]

Abs(x) == IF x < 0 THEN 0 - x ELSE x

Sign(x) == IF x < 0 THEN 0 - 1 ELSE IF x = 0 THEN 0 ELSE 1

\* particle_type_dict of convert_particle_class_to_categorical (num_classes = 4):
\* 0: elec_NC, 1: elec_CC, 2: muon_CC, 3: tau_CC.
ParticleTypeDict ==
    (<<12, 0>> :> 0) @@ (<<12, 1>> :> 1) @@ (<<14, 1>> :> 2) @@ (<<16, 1>> :> 3)

\* convert_particle_class_to_categorical: the lookup raises KeyError for a key that
\* is not in the dict, and num_classes /= 4 raises ValueError.
ConvertParticleClassToCategorical(particle_type, is_cc, num_classes) ==
    IF num_classes /= 4 THEN [raised |-> "ValueError", val |-> <<>>]
    ELSE LET key == <<Abs(particle_type), is_cc>>
         IN  IF key \notin DOMAIN ParticleTypeDict
             THEN [raised |-> "KeyError", val |-> <<>>]
             ELSE [raised |-> "none", val |-> OneHot(num_classes, ParticleTypeDict[key])]

\* An up/down encoding that keeps the sign -1 of a down-going event instead of
\* bringing it to 0.
GetClassUpDownCategoricalNoRemap(dir_z, n_neurons, rnd) ==
    LET sgn  == Sign(dir_z)
        drawn == IF sgn = 0 THEN rnd ELSE sgn
    IN  IF n_neurons = 1
        THEN [raised |-> "none", val |-> <<drawn>>]
        ELSE [raised |-> "none",
              val |-> OneHot(n_neurons, IF drawn = 0 - 1 THEN n_neurons - 1 ELSE drawn)]

\* get_class_up_down_categorical(dir_z, n_neurons); rnd is the value drawn by
\* np.random.randint(2) when dir_z == 0.
GetClassUpDownCategorical(dir_z, n_neurons, rnd) ==
    LET sgn  == Sign(dir_z)
        drawn == IF sgn = 0 THEN rnd ELSE sgn
        up_down_class_value == IF drawn = 0 - 1 THEN 0 ELSE drawn
    IN  IF n_neurons = 1
        THEN [raised |-> "none", val |-> <<up_down_class_value>>]
        ELSE IF up_down_class_value + 1 > n_neurons
             THEN [raised |-> "IndexError", val |-> <<>>]
             ELSE [raised |-> "none", val |-> OneHot(n_neurons, up_down_class_value)]

\* encode_targets(y_val, class_type). y_val is one row of the 'y' dataset, a function
\* of the column index: 1 particle_type, 3 is_cc, 7 dir_z.
EncodeTargets(y_val, class_type, rnd) ==
    IF class_type[2] = "track-shower" THEN
        IF class_type[1] /= 2 THEN [raised |-> "AssertionError", val |-> <<>>]
        ELSE LET categorical_type == ConvertParticleClassToCategorical(y_val[1], y_val[3], 4)
             IN  IF categorical_type.raised /= "none" THEN categorical_type
                 ELSE IF categorical_type.val[3] = 1      \* categorical_type[2] == 1
                      THEN [raised |-> "none", val |-> OneHot(2, 1)]   \* track
                      ELSE [raised |-> "none", val |-> OneHot(2, 0)]   \* shower
    ELSE IF class_type[2] = "up_down" THEN
        GetClassUpDownCategorical(y_val[7], class_type[1], rnd)
    ELSE IF class_type[2] = "tau-CC_vs_other_neutrinos" THEN
        LET categorical_type == ConvertParticleClassToCategorical(y_val[1], y_val[3], 4)
        IN  IF categorical_type.raised /= "none" THEN categorical_type
            ELSE IF class_type[1] = 1
                 THEN [raised |-> "none", val |-> <<categorical_type.val[4]>>]
                 ELSE IF class_type[1] /= 2 THEN [raised |-> "AssertionError", val |-> <<>>]
                      ELSE [raised |-> "none",
                            val |-> <<categorical_type.val[4],
                                      IF categorical_type.val[4] /= 1 THEN 1 ELSE 0>>]
    ELSE [raised |-> "none", val |-> y_val]    \* "not supported": y_val is returned as is

\* ------------------------------------------------- the 'y' dataset rows

\* Columns of a row of the 'y' dataset (encode_targets' docstring): 0 event_id,
\* 1 particle_type, 2 energy, 3 isCC, 4 bjorkeny, 5/6/7 dir_x/y/z, 8 time, 9 run_id,
\* 10..13 the vertex and its time (get_regression_labels).
YCols == 0..13

\* A row with the given event id, particle type, interaction channel and dir_z. The
\* other columns are fixed functions of the event id; energy and bjorken-y stand for
\* the file's floats as integers (energy > 1 and bjorken-y = 2, so that the
\* visible-energy product differs from both).
YRow(event_id, particle_type, is_cc, dir_z) ==
    [c \in YCols |->
        CASE c = 0 -> event_id
          [] c = 1 -> particle_type
          [] c = 2 -> event_id + 2
          [] c = 3 -> is_cc
          [] c = 4 -> 2
          [] c = 7 -> dir_z
          [] OTHER -> c]

\* The event kinds <<particle_type, is_cc>> of the rows of the three 'y' datasets the
\* generator is run on: 1 and 2 hold the event classes of particle_type_dict only,
\* 3 also holds a muon-NC event.
KindCycle ==
    << << <<12, 0>>, <<14, 1>>, <<0 - 12, 1>>, <<16, 1>> >>,
       << <<14, 1>>, <<0 - 12, 0>>, <<0 - 16, 1>>, <<12, 1>> >>,
       << <<12, 0>>, <<14, 0>>, <<14, 1>>, <<16, 1>> >> >>

YDataSets == 1..Len(KindCycle)

\* Row r of 'y' dataset d.
YData(d, r) ==
    LET kind == KindCycle[d][(r % Len(KindCycle[d])) + 1]
    IN  YRow(r, kind[1], kind[2], 1 - (r % 3))

\* ------------------------------------------------ get_regression_labels

\* y_values[:, c:c+1]: column c of every row, each as a 1-tuple.
Col(y_values, c) == [k \in 1..Len(y_values) |-> <<y_values[k][c]>>]

\* A conversion that returns a view of the caller's array instead of a copy.
AsTypeAliased(y_values) == [data |-> y_values, sharesMemory |-> TRUE]

\* y_values.astype(np.float32): ndarray.astype returns a newly allocated copy.
AsTypeFloat32(y_values) == [data |-> y_values, sharesMemory |-> FALSE]

\* The in-place visible-energy correction of the elec-NC rows: column 2 becomes
\* energy * bjorken-y, then column 4 becomes 1.
CorrectVisibleEnergy(y_values) ==
    [k \in 1..Len(y_values) |->
        IF Abs(y_values[k][1]) = 12 /\ y_values[k][3] = 0
        THEN [y_values[k] EXCEPT ![2] = y_values[k][2] * y_values[k][4], ![4] = 1]
        ELSE y_values[k]]

\* get_regression_labels(y_values, class_type): the labels dict ys, and caller, the
\* array the caller passed in as it is after the call.
GetRegressionLabels(y_values, class_type) ==
    LET local == AsTypeFloat32(y_values)
        fixed == CorrectVisibleEnergy(local.data)
        seen  == IF local.sharesMemory THEN fixed ELSE y_values
    IN  IF class_type[2] = "energy_and_direction_and_bjorken-y" THEN
            [raised |-> "none", caller |-> y_values,
             ys |-> ("dir_x" :> Col(local.data, 5)) @@ ("dir_y" :> Col(local.data, 6)) @@
                    ("dir_z" :> Col(local.data, 7)) @@ ("energy" :> Col(local.data, 2)) @@
                    ("bjorken-y" :> Col(local.data, 4))]
        ELSE IF class_type[2] = "energy_dir_bjorken-y_errors" THEN
            [raised |-> "none", caller |-> seen,
             ys |-> ("dir_x" :> Col(fixed, 5)) @@ ("dir_x_err" :> Col(fixed, 5)) @@
                    ("dir_y" :> Col(fixed, 6)) @@ ("dir_y_err" :> Col(fixed, 6)) @@
                    ("dir_z" :> Col(fixed, 7)) @@ ("dir_z_err" :> Col(fixed, 7)) @@
                    ("e" :> Col(fixed, 2)) @@ ("e_err" :> Col(fixed, 2)) @@
                    ("by" :> Col(fixed, 4)) @@ ("by_err" :> Col(fixed, 4))]
        ELSE IF class_type[2] = "energy_dir_bjorken-y_vtx_errors" THEN
            [raised |-> "none", caller |-> seen,
             ys |-> ("dx" :> Col(fixed, 5)) @@ ("dx_err" :> Col(fixed, 5)) @@
                    ("dy" :> Col(fixed, 6)) @@ ("dy_err" :> Col(fixed, 6)) @@
                    ("dz" :> Col(fixed, 7)) @@ ("dz_err" :> Col(fixed, 7)) @@
                    ("e" :> Col(fixed, 2)) @@ ("e_err" :> Col(fixed, 2)) @@
                    ("by" :> Col(fixed, 4)) @@ ("by_err" :> Col(fixed, 4)) @@
                    ("vx" :> Col(fixed, 10)) @@ ("vx_err" :> Col(fixed, 10)) @@
                    ("vy" :> Col(fixed, 11)) @@ ("vy_err" :> Col(fixed, 11)) @@
                    ("vz" :> Col(fixed, 12)) @@ ("vz_err" :> Col(fixed, 12)) @@
                    ("vt" :> Col(fixed, 13)) @@ ("vt_err" :> Col(fixed, 13))]
        ELSE [raised |-> "ValueError", caller |-> y_values, ys |-> <<>>]

\* ---------------------------------------- generate_batches_from_hdf5_file

\* f_size=None, the default of the parameter.
NoneSize == 0 - 1

\* swap_4d_channels_dict; the tuples are numpy axes (0-based).
Swap4dChannelsDict ==
    ("yzt-x" :> <<0, 2, 3, 4, 1>>) @@ ("xyt-z" :> <<0, 1, 2, 4, 3>>) @@
    ("t-xyz" :> <<0, 4, 1, 2, 3>>) @@ ("tyz-x" :> <<0, 4, 2, 3, 1>>)

\* The str_ident that selects the four-input branch of the generator.
MultiInputIdent == "multi_input_single_train_tight-1_tight-2"

\* 'xyz-t_and_yzt-x' + 'multi_input_single_train_tight-1_tight-2' in swap_col + str_ident,
\* decided for the strings the model uses: the substring is there when swap_col ends
\* with 'xyz-t_and_yzt-x' and str_ident starts with the identifier.
ContainsMultiInput(swap_col, str_ident) ==
    /\ swap_col \in {"xyz-t_and_yzt-x", "_xyz-t_and_yzt-x"}
    /\ str_ident = MultiInputIdent

\* f[i]['x'][rows] reshaped to dimensions: an ndarray holding the rows `rows` of
\* file i (0-based), its shape, and for each of its axes the axis of the reshaped
\* array it came from.
ImageBatch(i, rows, dimensions) ==
    [py |-> "ndarray", file |-> i, rows |-> rows, shape |-> dimensions,
     axes |-> [j \in 1..Len(dimensions) |-> j - 1], centered |-> FALSE, parts |-> <<>>]

\* np.asarray of a Python object: an ndarray is itself, a dict becomes a 0-d object
\* array.
AsArray(obj) ==
    IF obj.py = "ndarray" THEN obj
    ELSE [py |-> "ndarray", file |-> 0 - 1, rows |-> <<>>, shape |-> <<>>,
          axes |-> <<>>, centered |-> FALSE, parts |-> <<>>]

\* np.transpose(obj, perm): ValueError ("axes don't match array") unless perm has one
\* entry per axis; axis j of the result is axis perm[j] of the argument.
Transpose(obj, perm) ==
    LET a == AsArray(obj)
    IN  IF Len(a.shape) /= Len(perm) THEN [raised |-> "ValueError", val |-> a]
        ELSE [raised |-> "none",
              val |-> [a EXCEPT !.shape = [j \in 1..Len(perm) |-> a.shape[perm[j] + 1]],
                                !.axes  = [j \in 1..Len(perm) |-> a.axes[perm[j] + 1]]]]

\* np.concatenate([a, b], axis=-1): all axes but the last must agree.
ConcatLast(a, b) ==
    LET n == Len(a.shape)
    IN  IF n /= Len(b.shape) \/ \E j \in 1..(n - 1) : a.shape[j] /= b.shape[j]
        THEN [raised |-> "ValueError", val |-> a]
        ELSE [raised |-> "none",
              val |-> [a EXCEPT !.shape[n] = a.shape[n] + b.shape[n],
                                !.parts = <<a.file, b.file>>]]

\* The loop condition written with < on f_size alone: it also enters for a last,
\* partial batch.
LoopCondPartial(n_entries, f_size, batchsize) == n_entries < f_size

\* while n_entries <= (f_size - batchsize)
LoopCond(n_entries, f_size, batchsize) == n_entries <= f_size - batchsize

\* The swap_col branches of the generator: xs is the dict of the reshaped (and
\* zero-centered) arrays, a sequence indexed by file number + 1. The result is
\* xs_list (isList: the single-input branch assigns an array instead of a list).
SwapCols(xs, swap_col, str_ident) ==
    LET xsDict == [py |-> "dict", items |-> xs]
    IN  IF swap_col = None THEN [raised |-> "none", isList |-> TRUE, xs_list |-> xs]
        ELSE IF swap_col = "yzt-x" \/ swap_col = "xyt-z" THEN
            LET t == Transpose(xsDict, Swap4dChannelsDict[swap_col])
            IN  [raised |-> t.raised, isList |-> TRUE, xs_list |-> <<t.val>>]
        ELSE IF swap_col = "xyz-t_and_yzt-x" THEN
            LET t == Transpose(xs[1], Swap4dChannelsDict["yzt-x"])
            IN  [raised |-> t.raised, isList |-> TRUE, xs_list |-> <<xs[1], t.val>>]
        ELSE IF ContainsMultiInput(swap_col, str_ident) THEN
            LET t1 == Transpose(xs[1], Swap4dChannelsDict["yzt-x"])
            IN  IF t1.raised /= "none"
                THEN [raised |-> t1.raised, isList |-> TRUE, xs_list |-> <<>>]
                ELSE IF Len(xs) < 2
                THEN [raised |-> "KeyError", isList |-> TRUE, xs_list |-> <<>>]
                ELSE LET t2 == Transpose(xs[2], Swap4dChannelsDict["yzt-x"])
                     IN  [raised |-> t2.raised, isList |-> TRUE,
                          xs_list |-> <<xs[1], t1.val, xs[2], t2.val>>]
        ELSE IF swap_col = "xyz-t_and_xyz-c_single_input" THEN
            IF Len(xs) < 2 THEN [raised |-> "KeyError", isList |-> FALSE, xs_list |-> <<>>]
            ELSE LET c == ConcatLast(xs[1], xs[2])
                 IN  [raised |-> c.raised, isList |-> FALSE, xs_list |-> <<c.val>>]
        ELSE [raised |-> "ValueError", isList |-> TRUE, xs_list |-> <<>>]

\* for c, y_val in enumerate(y_values): ys[c] = encode_targets(y_val, class_type).
\* The first row that raises ends the loop.
EncodeBatch(y_values, class_type) ==
    LET enc == [k \in 1..Len(y_values) |-> EncodeTargets(y_values[k], class_type, 0)]
        bad == {k \in 1..Len(y_values) : enc[k].raised /= "none"}
    IN  IF bad /= {}
        THEN [raised |-> enc[CHOOSE k \in bad : \A m \in bad : k <= m].raised, ys |-> <<>>]
        ELSE [raised |-> "none", ys |-> [k \in 1..Len(y_values) |-> enc[k].val]]

\* The labels of one batch: get_regression_labels, or for 'track-shower' the row by
\* row encoding into np.zeros((batchsize, class_type[0])). caller is y_values as the
\* generator holds it afterwards.
BatchLabels(y_values, class_type) ==
    IF class_type[2] /= "track-shower"
    THEN GetRegressionLabels(y_values, class_type)
    ELSE LET e == EncodeBatch(y_values, class_type)
         IN  [raised |-> e.raised, caller |-> y_values, ys |-> e.ys]

\* One iteration of the inner while loop, from the reads to the yield: args are the
\* generator's arguments (fileLen[i+1] is the number of rows of the 'x' and 'y'
\* datasets of filepath[i], ydata the content of the first file's 'y'). The result is
\* the exception raised (where), or the tuple yielded, and the rows that were read.
BatchResult(args, n_entries) ==
    LET n_files   == Len(args.fileLen)
        batchsize == args.batchsize
        stop      == n_entries + batchsize
        dims      == [i \in 1..n_files |-> GetDimensionsEncoding(args.n_bins[i], batchsize)]
        read      == [i \in 1..n_files |-> Slice(args.fileLen[i], n_entries, stop)]
        \* np.reshape(xs[i], dimensions[i]) of rows of prod(n_bins[i]) values each
        badShape  == {i \in 1..n_files :
                         Len(read[i]) * Prod(args.n_bins[i]) /= Prod(dims[i])}
        reshaped  == [i \in 1..n_files |-> ImageBatch(i - 1, read[i], dims[i])]
        xs        == IF args.zero_center
                     THEN [i \in 1..n_files |-> [reshaped[i] EXCEPT !.centered = TRUE]]
                     ELSE reshaped
        swapped   == SwapCols(xs, args.swap_col, args.str_ident)
        yRead     == Slice(args.fileLen[1], n_entries, stop)
        y_values  == [k \in 1..Len(yRead) |-> YData(args.ydata, yRead[k])]
        labels    == BatchLabels(y_values, args.class_type)
        xRowsAll  == UNION {SeqToSet(read[i]) : i \in 1..n_files}
        none      == <<>>
    IN  IF badShape /= {} THEN
            LET first == CHOOSE i \in badShape : \A m \in badShape : i <= m
            IN  [raised |-> "ValueError", where |-> "reshape xs", output |-> none,
                 rows |-> UNION {SeqToSet(read[i]) : i \in 1..first}]
        ELSE IF swapped.raised /= "none" THEN
            [raised |-> swapped.raised, where |-> "swap_col", output |-> none,
             rows |-> xRowsAll]
        ELSE IF Len(yRead) /= batchsize THEN
            [raised |-> "ValueError", where |-> "reshape y_values", output |-> none,
             rows |-> xRowsAll \cup SeqToSet(yRead)]
        ELSE IF labels.raised /= "none" THEN
            [raised |-> labels.raised, where |-> "labels", output |-> none,
             rows |-> xRowsAll \cup SeqToSet(yRead)]
        ELSE [raised |-> "none", where |-> "",
              output |-> IF args.yield_mc_info = FALSE
                         THEN <<swapped.xs_list, labels.ys>>
                         ELSE <<swapped.xs_list, labels.ys, labels.caller>>,
              rows |-> xRowsAll \cup SeqToSet(yRead)]

\* ------------------------------------------------------------- the state

VARIABLES
    gArgs,          \* the arguments the generator was created with
    genPc,          \* "start" (at while 1), "loop" (at the inner while), "yield", "raised"
    f_size,         \* the generator's f_size (NoneSize until the first pass sets it)
    n_entries,      \* rows read in this pass
    out,            \* the tuple yielded last
    genErr,         \* the exception that ended the generator: <<type, where>>
    pass,           \* passes completed
    yieldsInPass,   \* batches yielded in this pass
    passYields,     \* batches yielded in each completed pass
    rowsRead,       \* row indices read from a dataset so far
    fnArgs,         \* the arguments of a call of one of the pure functions
    fnPc,           \* "idle", "call" (called, not yet returned), "returned"
    fnRet,          \* what the call returned or raised
    mArgs,          \* get_mean_image: the 'x' dataset, its row size and n_gpu
    meanPc,         \* "idle", "start", "loop", "done"
    steps,          \* number of memory steps
    stepsize,       \* rows per step
    mStep,          \* the loop variable i
    xs_mean_arr,    \* the mean image of each step done so far
    xs_mean,        \* the returned mean image
    zcCfg,          \* load_zero_center_data: the cfg (train files, list file name)
    zcFolder,       \* the zero_center_folder on disk: whether it exists, its .npz files
    zcPc,           \* "idle", "loop" (at the for over the inputs), "returned"
    zcInput,        \* the loop variable i
    xs_mean_list,   \* the list xs_mean built by load_zero_center_data
    zcCall,         \* number of the call of load_zero_center_data under way
    zcLog,          \* per input handled: the call, the input, whether a stored array
                    \* matched before, and whether the mean was loaded or computed
    evCfg,          \* make_model_evaluation: the validation file sizes, batchsize, samples
    evalPc,         \* "idle", "files", "steps", "next" (inside next(generator)), "done", "raised"
    f_number,       \* index of the validation file set
    evSteps,        \* steps of this file set
    evStep,         \* the loop variable s
    datagroups_created,
    written,        \* the rows of the output file's mc_info dataset: <<f_number, event_id>>
    evalErr,        \* the exception that ended make_model_evaluation
    lgCfg,          \* BatchLevelPerformanceLogger: display, flush, epoch, steps per file
    lgPc,           \* "idle", "training" (constructed), "epoch_end" (on_epoch_end done)
    seen,           \* batches seen
    cum_metrics,    \* sum of the metric over the batches since the last logged line
    loglist,        \* the buffered statistics lines
    logfile_train   \* the lines of the training log file, the header first

genVars == <<gArgs, genPc, f_size, n_entries, out, genErr, pass, yieldsInPass,
             passYields, rowsRead>>

fnVars == <<fnArgs, fnPc, fnRet>>

meanVars == <<mArgs, meanPc, steps, stepsize, mStep, xs_mean_arr, xs_mean>>

zcVars == <<zcCfg, zcFolder, zcPc, zcInput, xs_mean_list, zcCall, zcLog>>

evalVars == <<evCfg, evalPc, f_number, evSteps, evStep, datagroups_created, written,
              evalErr>>

logVars == <<lgCfg, lgPc, seen, cum_metrics, loglist, logfile_train>>

vars == <<genVars, fnVars, meanVars, zcVars, evalVars, logVars>>

\* make_model_evaluation is not running.
EvalIdle ==
    /\ evCfg = <<>>
    /\ evalPc = "idle"
    /\ f_number = 0
    /\ evSteps = 0
    /\ evStep = 0
    /\ datagroups_created = FALSE
    /\ written = <<>>
    /\ evalErr = <<>>

\* load_zero_center_data is not running.
ZcIdle ==
    /\ zcCfg = <<>>
    /\ zcFolder = <<>>
    /\ zcPc = "idle"
    /\ zcInput = 0
    /\ xs_mean_list = <<>>
    /\ zcCall = 0
    /\ zcLog = <<>>

\* get_mean_image is not running.
MeanIdle ==
    /\ mArgs = <<>>
    /\ meanPc = "idle"
    /\ steps = 0
    /\ stepsize = 0
    /\ mStep = 0
    /\ xs_mean_arr = <<>>
    /\ xs_mean = <<>>

\* No BatchLevelPerformanceLogger has been constructed.
LogIdle ==
    /\ lgCfg = <<>>
    /\ lgPc = "idle"
    /\ seen = 0
    /\ cum_metrics = 0
    /\ loglist = <<>>
    /\ logfile_train = <<>>

\* No call of a pure function is under way.
FnIdle == fnArgs = <<>> /\ fnPc = "idle" /\ fnRet = <<>>

\* ---------------------------------------------------- generator: inputs

NBinsChoices == {<<2, 2, 2, 2>>, <<2, 2, 1, 2>>}

ClassTypes ==
    {<<2, "track-shower">>, <<1, "energy_dir_bjorken-y_errors">>, <<2, "up_down">>}

SwapCols4d == {None, "yzt-x", "xyz-t_and_yzt-x", "tyz-x"}

\* The argument records the generator is run with: one or two input files of
\* 1..MaxRows rows, and f_size None or a number (also one past the files' rows).
GenArgs ==
    {a \in [fileLen : UNION {[1..n -> 1..MaxRows] : n \in 1..2},
            n_bins : UNION {[1..n -> NBinsChoices] : n \in 1..2},
            batchsize : 1..MaxBatch,
            class_type : ClassTypes,
            str_ident : {""},
            f_size : {NoneSize} \cup 0..(MaxRows + 1),
            zero_center : BOOLEAN,
            yield_mc_info : BOOLEAN,
            swap_col : SwapCols4d,
            ydata : YDataSets] :
        Len(a.n_bins) = Len(a.fileLen)}

\* A generator object right after the call that created it.
GenCreated(args) ==
    /\ gArgs = args
    /\ genPc = "start"
    /\ f_size = args.f_size
    /\ n_entries = 0
    /\ out = <<>>
    /\ genErr = <<>>
    /\ pass = 0
    /\ yieldsInPass = 0
    /\ passYields = <<>>
    /\ rowsRead = {}

\* --------------------------------------------------- generator: actions

\* while 1: open the files, resolve f_size=None to len(f[0]['y']), n_entries = 0.
GenOpen ==
    /\ genPc = "start"
    /\ f_size' = IF f_size = NoneSize THEN gArgs.fileLen[1] ELSE f_size
    /\ n_entries' = 0
    /\ yieldsInPass' = 0
    /\ genPc' = "loop"
    /\ UNCHANGED <<gArgs, out, genErr, pass, passYields, rowsRead>>

\* One iteration of the inner loop: it raises, or yields the next batch.
GenBatch ==
    /\ genPc = "loop"
    /\ LoopCond(n_entries, f_size, gArgs.batchsize)
    /\ LET r == BatchResult(gArgs, n_entries)
       IN  /\ rowsRead' = rowsRead \cup r.rows
           /\ IF r.raised /= "none"
              THEN /\ genPc' = "raised"
                   /\ genErr' = <<r.raised, r.where>>
                   /\ UNCHANGED <<out, n_entries, yieldsInPass>>
              ELSE /\ genPc' = "yield"
                   /\ out' = r.output
                   /\ n_entries' = n_entries + gArgs.batchsize
                   /\ yieldsInPass' = yieldsInPass + 1
                   /\ UNCHANGED genErr
    /\ UNCHANGED <<gArgs, f_size, pass, passYields>>

\* next(generator) on a generator suspended at its yield.
GenResume ==
    /\ genPc = "yield"
    /\ genPc' = "loop"
    /\ UNCHANGED <<gArgs, f_size, n_entries, out, genErr, pass, yieldsInPass,
                   passYields, rowsRead>>

\* The inner loop ends: the files are closed and the outer loop starts over.
GenClose ==
    /\ genPc = "loop"
    /\ ~LoopCond(n_entries, f_size, gArgs.batchsize)
    /\ pass + 1 < MaxPasses
    /\ pass' = pass + 1
    /\ passYields' = Append(passYields, yieldsInPass)
    /\ genPc' = "start"
    /\ UNCHANGED <<gArgs, f_size, n_entries, out, genErr, yieldsInPass, rowsRead>>

\* Arguments of a generator that is never run.
IdleGenArgs ==
    [fileLen |-> <<1>>, n_bins |-> <<<<2, 2, 2, 2>>>>, batchsize |-> 1,
     class_type |-> <<2, "track-shower">>, str_ident |-> "", f_size |-> NoneSize,
     zero_center |-> FALSE, yield_mc_info |-> FALSE, swap_col |-> None, ydata |-> 1]

GenIdle == GenCreated(IdleGenArgs)

GenInit ==
    (\E a \in GenArgs : GenCreated(a)) /\ FnIdle /\ MeanIdle /\ ZcIdle /\ EvalIdle /\ LogIdle

GenNext == (GenOpen \/ GenBatch \/ GenResume \/ GenClose) /\ UNCHANGED <<fnVars, meanVars, zcVars, evalVars, logVars>>

\* The generator driven by a consumer that keeps calling next().
SpecGen == GenInit /\ [][GenNext]_vars

\* ---------------------------------------------- generator: the claims

\* The f_size the generator works with: the given value, or the length of the
\* first file's 'y' when f_size is None.
EffFSize(a) == IF a.f_size = NoneSize THEN a.fileLen[1] ELSE a.f_size

\* The rows [k*batchsize, (k+1)*batchsize).
BatchRows(k, batchsize) == [j \in 1..batchsize |-> k * batchsize + j - 1]

\* The raw rows of the first file's 'y' for the k-th batch.
RawYValues(a, k) ==
    [j \in 1..a.batchsize |-> YData(a.ydata, BatchRows(k, a.batchsize)[j])]

\* Arguments within the documented use of the generator: a swap_col its docstring
\* or its branches name for this input, labels the generator supports, and an
\* f_size that does not exceed the rows of any input file.
ArgsDocumented(a) ==
    /\ a.swap_col \in {None, "yzt-x", "xyz-t_and_yzt-x"}
    /\ a.class_type \in {<<2, "track-shower">>, <<1, "energy_dir_bjorken-y_errors">>}
    /\ \A i \in 1..Len(a.fileLen) : EffFSize(a) <= a.fileLen[i]

\* C1: every yielded batch is a full batch. At the k-th yield of a pass every image
\* array holds exactly the rows [k*batchsize, (k+1)*batchsize), without swap_col
\* there is one array per input file, in file order, the labels are those derived
\* from the same rows of the first file's 'y', and no row with an index >= f_size
\* has been read from any dataset.
C1_FullBatches ==
    /\ \A r \in rowsRead : r < EffFSize(gArgs)
    /\ genPc = "yield" =>
          LET k    == yieldsInPass - 1
              rows == BatchRows(k, gArgs.batchsize)
          IN  /\ \A m \in 1..Len(out[1]) :
                    out[1][m].rows = rows /\ out[1][m].shape[1] = gArgs.batchsize
              /\ gArgs.swap_col = None =>
                    /\ Len(out[1]) = Len(gArgs.fileLen)
                    /\ \A i \in 1..Len(out[1]) : out[1][i].file = i - 1
              /\ out[2] = BatchLabels(RawYValues(gArgs, k), gArgs.class_type).ys
              /\ (k + 1) * gArgs.batchsize <= EffFSize(gArgs)

\* C1's case: the second pass over two input files yields a batch while f_size is
\* no multiple of the batchsize and smaller than the files.
C1_Witness ==
    /\ genPc = "yield"
    /\ pass = 1
    /\ Len(gArgs.fileLen) = 2
    /\ gArgs.batchsize = 2
    /\ f_size = 3
    /\ gArgs.f_size = 3
    /\ out[1][2].rows = <<0, 1>>

\* C2: for documented arguments the generator never terminates, a pass ends after
\* exactly floor(f_size / batchsize) batches, the k-th batch of every pass holds the
\* rows [k*batchsize, (k+1)*batchsize), and the trailing f_size mod batchsize rows
\* and the rows beyond f_size are never read.
C2_EndlessPeriodicPasses ==
    ArgsDocumented(gArgs) =>
        LET n == EffFSize(gArgs) \div gArgs.batchsize
        IN  /\ genPc /= "raised"
            /\ \A p \in 1..Len(passYields) : passYields[p] = n
            /\ (genPc = "loop" /\ ~LoopCond(n_entries, f_size, gArgs.batchsize))
                   => yieldsInPass = n
            /\ genPc = "yield" =>
                   \A m \in 1..Len(out[1]) :
                       out[1][m].rows = BatchRows(yieldsInPass - 1, gArgs.batchsize)
            /\ \A r \in rowsRead : r < n * gArgs.batchsize

\* C8: with swap_col = 'yzt-x' on a single 4D input (and otherwise documented
\* arguments and events of particle_type_dict) the generator yields one image array
\* whose axes are the batch axis followed by the non-batch axes in the order
\* [3, 1, 2, 0], i.e. numpy axes (0, 4, 2, 3, 1).
C8_YztXSwapsFirstAndLastAxis ==
    ( /\ gArgs.swap_col = "yzt-x"
      /\ Len(gArgs.fileLen) = 1
      /\ \A d \in 1..4 : gArgs.n_bins[1][d] > 1
      /\ ArgsDocumented(gArgs)
      /\ gArgs.ydata /= 3 )
    => /\ genPc /= "raised"
       /\ genPc = "yield" =>
             /\ Len(out[1]) = 1
             /\ out[1][1].axes = <<0, 4, 2, 3, 1>>

\* C9: the yielded tuple has 2 elements without yield_mc_info and 3 with it, and the
\* third is the raw rows of the first file's 'y' for the batch's row range, whatever
\* the label derivation did.
C9_McInfoIsRaw ==
    genPc = "yield" =>
        /\ Len(out) = IF gArgs.yield_mc_info THEN 3 ELSE 2
        /\ gArgs.yield_mc_info => out[3] = RawYValues(gArgs, yieldsInPass - 1)

\* C9's case: a 3-tuple whose energy labels were corrected to the visible energy,
\* so that they differ from the energies of the yielded mc info.
C9_Witness ==
    /\ genPc = "yield"
    /\ gArgs.yield_mc_info
    /\ gArgs.class_type[2] = "energy_dir_bjorken-y_errors"
    /\ Len(out) = 3
    /\ out[2]["e"] /= Col(out[3], 2)

\* ------------------------------------------- get_dimensions_encoding calls

\* Largest bin count of a dimension.
MaxBins == 3

DimInit ==
    /\ \E n_bins \in [1..4 -> 1..MaxBins], batchsize \in 1..MaxBatch :
           fnArgs = [n_bins |-> n_bins, batchsize |-> batchsize]
    /\ fnPc = "call"
    /\ fnRet = <<>>
    /\ GenIdle
    /\ MeanIdle
    /\ ZcIdle
    /\ EvalIdle
    /\ LogIdle

CallGetDimensionsEncoding ==
    /\ fnPc = "call"
    /\ fnRet' = GetDimensionsEncoding(fnArgs.n_bins, fnArgs.batchsize)
    /\ fnPc' = "returned"
    /\ UNCHANGED <<fnArgs, genVars, meanVars, zcVars, evalVars, logVars>>

DimNext == CallGetDimensionsEncoding

\* get_dimensions_encoding called on every n_bins of 1..MaxBins bins per dimension.
SpecDim == DimInit /\ [][DimNext]_vars

\* What the claim says the result is: the batchsize, the bin counts that are not 1
\* in x, y, z, t order, and a trailing 1 when some bin count is 1.
ClaimedDimensions(n_bins, batchsize) ==
    IF CountOnes(n_bins) = 0 THEN <<batchsize>> \o n_bins
    ELSE <<batchsize>> \o NotOne(n_bins) \o <<1>>

\* C7 as stated: for every n_bins the result leaves out every dimension of one bin.
C7_LeavesOutEveryDimensionOfOneBin ==
    fnPc = "returned" => fnRet = ClaimedDimensions(fnArgs.n_bins, fnArgs.batchsize)

\* C7 amended: for every n_bins with at most two bin counts equal to 1 the result is
\* (batchsize, <the bin counts that are not 1, in x, y, z, t order>, 1), or
\* (batchsize, x, y, z, t) when no bin count is 1; for every n_bins, also with three
\* or four bin counts of 1, it is a tuple of 2D, 3D or 4D data: the batchsize
\* followed by 2 or 3 bin counts and a 1, or by the 4 bin counts.
C7_LeavesOutUpToTwoDimensions ==
    fnPc = "returned" =>
        /\ CountOnes(fnArgs.n_bins) <= 2
               => fnRet = ClaimedDimensions(fnArgs.n_bins, fnArgs.batchsize)
        /\ Len(fnRet) \in {4, 5}
        /\ fnRet[1] = fnArgs.batchsize
        /\ Len(fnRet) = 4 => fnRet[4] = 1
        /\ (Len(fnRet) = 5 /\ CountOnes(fnArgs.n_bins) > 0) => fnRet[5] = 1

\* C7's case: a projection with two dimensions of one bin, x and t, has returned.
C7_Witness ==
    /\ fnPc = "returned"
    /\ fnArgs.n_bins = <<1, 3, 2, 1>>
    /\ fnRet = <<fnArgs.batchsize, 3, 2, 1>>

\* ---------------------------------------------------- encode_targets calls

EncClassTypes ==
    {<<2, "track-shower">>, <<1, "up_down">>, <<2, "up_down">>,
     <<1, "tau-CC_vs_other_neutrinos">>, <<2, "tau-CC_vs_other_neutrinos">>,
     <<2, "muon-CC_to_elec-CC">>}

ParticleTypes == {12, 14, 16, 0 - 12, 0 - 14, 0 - 16}

EncInit ==
    /\ \E pt \in ParticleTypes, cc \in {0, 1}, dz \in {0 - 1, 0, 1}, ct \in EncClassTypes :
           fnArgs = [y_val |-> YRow(0, pt, cc, dz), class_type |-> ct]
    /\ fnPc = "call"
    /\ fnRet = <<>>
    /\ GenIdle
    /\ MeanIdle
    /\ ZcIdle
    /\ EvalIdle
    /\ LogIdle

CallEncodeTargets ==
    /\ fnPc = "call"
    /\ \E rnd \in {0, 1} : fnRet' = EncodeTargets(fnArgs.y_val, fnArgs.class_type, rnd)
    /\ fnPc' = "returned"
    /\ UNCHANGED <<fnArgs, genVars, meanVars, zcVars, evalVars, logVars>>

EncNext == CallEncodeTargets

\* encode_targets called on one event of every neutrino type and channel.
SpecEnc == EncInit /\ [][EncNext]_vars

\* C10: for class_type (2, 'track-shower') and every (anti)neutrino type with
\* is_cc in {0, 1}, encode_targets returns [0, 1] (track) if and only if the event
\* is a muon-CC event, and [1, 0] (shower) otherwise.
C10_TrackIffMuonCC ==
    (fnPc = "returned" /\ fnArgs.class_type = <<2, "track-shower">>) =>
        /\ fnRet.raised = "none"
        /\ fnRet.val = IF Abs(fnArgs.y_val[1]) = 14 /\ fnArgs.y_val[3] = 1
                       THEN <<0, 1>> ELSE <<1, 0>>

\* C11: for class_type (n, 'up_down') and dir_z /= 0, encode_targets returns [1] for
\* dir_z > 0 and [0] for dir_z < 0 when n = 1, and [0, 1] for dir_z > 0 and [1, 0]
\* for dir_z < 0 when n = 2; for dir_z = 0 the result is one of these two encodings.
C11_UpDownEncoding ==
    (fnPc = "returned" /\ fnArgs.class_type[2] = "up_down") =>
        LET n     == fnArgs.class_type[1]
            dir_z == fnArgs.y_val[7]
            up    == IF n = 1 THEN <<1>> ELSE <<0, 1>>
            down  == IF n = 1 THEN <<0>> ELSE <<1, 0>>
        IN  /\ fnRet.raised = "none"
            /\ dir_z > 0 => fnRet.val = up
            /\ dir_z < 0 => fnRet.val = down
            /\ dir_z = 0 => fnRet.val \in {up, down}

\* C11's case: a down-going event has been encoded for two output neurons.
C11_Witness ==
    /\ fnPc = "returned"
    /\ fnArgs.class_type = <<2, "up_down">>
    /\ fnArgs.y_val[7] < 0
    /\ fnRet.val = <<1, 0>>

\* ------------------------------------------------------- get_mean_image

\* Largest number of rows of the 'x' dataset whose mean image is computed.
MaxMeanRows == 3

\* Largest value of a bin.
MaxBinValue == 1

\* Bins of an image (each bin is averaged on its own).
ImageBins == 1..2

\* Memory reckoned per GPU, 8e9 bytes, in units of 1e9 bytes.
MemoryPerGpu == 8

RECURSIVE Gcd(_, _)
Gcd(a, b) == IF b = 0 THEN a ELSE Gcd(b, a % b)

\* The fraction n / d in lowest terms (n >= 0, d > 0); <<0, 0>> is nan, the numpy
\* mean of no rows.
Rat(n, d) == IF d = 0 THEN <<0, 0>> ELSE <<n \div Gcd(n, d), d \div Gcd(n, d)>>

RatAdd(p, q) ==
    IF p[2] = 0 \/ q[2] = 0 THEN <<0, 0>> ELSE Rat(p[1] * q[2] + q[1] * p[2], p[2] * q[2])

RatDiv(p, k) == IF p[2] = 0 THEN <<0, 0>> ELSE Rat(p[1], p[2] * k)

RECURSIVE SumInts(_)
SumInts(s) == IF s = <<>> THEN 0 ELSE Head(s) + SumInts(Tail(s))

RECURSIVE SumRats(_)
SumRats(s) == IF s = <<>> THEN <<0, 1>> ELSE RatAdd(Head(s), SumRats(Tail(s)))

\* np.mean(x[lo : hi], axis=0, dtype=np.float64): per bin, the mean of the rows
\* lo .. hi - 1 of x, as an exact fraction.
MeanOfRows(x, lo, hi) ==
    LET rows == Slice(Len(x), lo, hi)
    IN  [b \in ImageBins |->
            Rat(SumInts([k \in 1..Len(rows) |-> x[rows[k] + 1][b]]), Len(rows))]

\* np.mean(xs_mean_arr, axis=0): per bin, the mean of the step means.
MeanOfMeans(arr) ==
    [b \in ImageBins |-> RatDiv(SumRats([k \in 1..Len(arr) |-> arr[k][b]]), Len(arr))]

\* get_array_memsize: (number of entries * 8) / 8 bytes, for rowSize entries per row
\* in units of 1e9.
GetArrayMemsize(n_rows, rowSize) == (n_rows * rowSize * 8) \div 8

\* int(np.ceil(a / b)) for positive a and b.
CeilDiv(a, b) == (a + b - 1) \div b

\* The rows of one step, i*stepsize to the end of the file for the last step and to
\* (i+1)*stepsize for the others.
StepRows(i, n_steps, n_stepsize, n_rows) ==
    IF i = n_steps - 1 \/ n_steps = 1
    THEN <<i * n_stepsize, n_rows>>
    ELSE <<i * n_stepsize, (i + 1) * n_stepsize>>

MeanInit ==
    /\ \E n \in 1..MaxMeanRows :
         \E x \in [1..n -> [ImageBins -> 0..MaxBinValue]], g \in 1..2, rs \in {4, 8} :
           mArgs = [x |-> x, n_gpu |-> g, rowSize |-> rs]
    /\ meanPc = "start"
    /\ steps = 0
    /\ stepsize = 0
    /\ mStep = 0
    /\ xs_mean_arr = <<>>
    /\ xs_mean = <<>>
    /\ GenIdle
    /\ FnIdle
    /\ ZcIdle
    /\ EvalIdle
    /\ LogIdle

\* The memory steps: steps = ceil(filesize / total_memory), stepsize = int(n_rows / steps).
MeanStart ==
    /\ meanPc = "start"
    /\ LET total_memory == mArgs.n_gpu * MemoryPerGpu
           filesize     == GetArrayMemsize(Len(mArgs.x), mArgs.rowSize)
           n_steps      == CeilDiv(filesize, total_memory)
       IN  /\ steps' = n_steps
           /\ stepsize' = Len(mArgs.x) \div n_steps
    /\ mStep' = 0
    /\ meanPc' = "loop"
    /\ UNCHANGED <<mArgs, xs_mean_arr, xs_mean, genVars, fnVars, zcVars, evalVars, logVars>>

\* for i in range(steps): the mean image of the rows of step i.
MeanStep ==
    /\ meanPc = "loop"
    /\ mStep < steps
    /\ LET r == StepRows(mStep, steps, stepsize, Len(mArgs.x))
       IN  xs_mean_arr' = Append(xs_mean_arr, MeanOfRows(mArgs.x, r[1], r[2]))
    /\ mStep' = mStep + 1
    /\ UNCHANGED <<mArgs, meanPc, steps, stepsize, xs_mean, genVars, fnVars, zcVars, evalVars, logVars>>

\* xs_mean = np.mean(xs_mean_arr, axis=0); return xs_mean.
MeanFinish ==
    /\ meanPc = "loop"
    /\ mStep = steps
    /\ xs_mean' = MeanOfMeans(xs_mean_arr)
    /\ meanPc' = "done"
    /\ UNCHANGED <<mArgs, steps, stepsize, mStep, xs_mean_arr, genVars, fnVars, zcVars, evalVars, logVars>>

MeanNext == MeanStart \/ MeanStep \/ MeanFinish

\* get_mean_image on every small 'x' dataset, with one or more memory steps.
SpecMean == MeanInit /\ [][MeanNext]_vars

\* C6: for every number of memory steps get_mean_image returns the per-bin mean over
\* all n_rows rows, i.e. what the single-step computation returns.
C6_MeanOverAllRows ==
    meanPc = "done" => xs_mean = MeanOfRows(mArgs.x, 0, Len(mArgs.x))

\* ------------------------------------------------ load_zero_center_data

\* Largest number of training files, and of model inputs.
MaxTrainFiles == 2

MaxInputs == 2

\* Calls of load_zero_center_data that are followed.
MaxCalls == 2

\* The file paths the list files name.
Paths == {"a.h5", "b.h5"}

\* The arrays of paths an .npz file of an earlier run can store.
PathArrays == UNION {[1..n -> Paths] : n \in 1..MaxTrainFiles}

\* train_files as cfg.get_train_files() returns it: entry j is a tuple whose first
\* element holds the path of training file j for every input.
TrainFileLists ==
    UNION {[1..n -> {<<ps>> : ps \in [1..m -> Paths]}] :
              n \in 1..MaxTrainFiles, m \in 1..MaxInputs}

\* An .npz file as np.savez writes it here: the two arrays it stores.
Npz(paths, mean) == [zero_center_used_ip_files |-> paths, xs_mean |-> mean]

\* The mean image of the training files paths, computed by call number c (0: by an
\* earlier run).
MeanImageOf(paths, c) == [from |-> paths, computedIn |-> c]

\* The zero_center_folder before the first call: missing, empty, or holding the
\* .npz file of an earlier run, saved for another list file or for this one.
InitialFolders ==
    {[isdir |-> FALSE, files |-> <<>>], [isdir |-> TRUE, files |-> <<>>]}
    \cup {[isdir |-> TRUE, files |-> (<<l, 0>> :> Npz(pa, MeanImageOf(pa, 0)))] :
             l \in {"old.list", "train.list"}, pa \in PathArrays}

\* load_fpaths_of_existing_zero_center_files: the .npz files of the folder, which is
\* created when it does not exist. A file name <<l, i>> stands for l_i.npz.
LoadFpathsOfExistingZeroCenterFiles(folder) ==
    IF folder.isdir
    THEN [zero_center_files |-> DOMAIN folder.files, folder |-> folder]
    ELSE [zero_center_files |-> {}, folder |-> [folder EXCEPT !.isdir = TRUE]]

\* The paths of the first input, whatever i is.
GetFpathsOfFirstInput(train_files, i) ==
    [j \in 1..Len(train_files) |-> train_files[j][1][1]]

\* get_fpaths_for_train_files_input_i: train_files[j][0][i] for every j.
GetFpathsForTrainFilesInputI(train_files, i) ==
    [j \in 1..Len(train_files) |-> train_files[j][1][i + 1]]

\* get_precalculated_xs_mean_if_exists: the files whose stored path array equals
\* (np.array_equal) the given one. The loop takes the first of them in the order of
\* os.listdir, which is any order.
MatchingZeroCenterFiles(folder, zero_center_files, all_train_files_for_ip_i) ==
    {f \in zero_center_files :
        folder.files[f].zero_center_used_ip_files = all_train_files_for_ip_i}

ZcInit ==
    /\ \E tf \in TrainFileLists, fo \in InitialFolders :
           /\ zcCfg = [train_files |-> tf, list_file |-> "train.list"]
           /\ zcFolder = fo
    /\ zcPc = "loop"
    /\ zcInput = 0
    /\ xs_mean_list = <<>>
    /\ zcCall = 1
    /\ zcLog = <<>>
    /\ GenIdle
    /\ FnIdle
    /\ MeanIdle
    /\ EvalIdle
    /\ LogIdle

\* One iteration of the loop over the model inputs.
ZcHandleInput ==
    /\ zcPc = "loop"
    /\ zcInput < Len(zcCfg.train_files[1][1])
    /\ LET i        == zcInput
           listed   == LoadFpathsOfExistingZeroCenterFiles(zcFolder)
           all_train_files_for_ip_i ==
                       GetFpathsForTrainFilesInputI(zcCfg.train_files, i)
           matching == MatchingZeroCenterFiles(listed.folder, listed.zero_center_files,
                                               all_train_files_for_ip_i)
           \* whether some .npz file stores the path array of input i
           stored   == \E f \in DOMAIN zcFolder.files :
                          /\ zcFolder.isdir
                          /\ zcFolder.files[f].zero_center_used_ip_files =
                                 [j \in 1..Len(zcCfg.train_files) |->
                                     zcCfg.train_files[j][1][i + 1]]
       IN  IF matching /= {}
           THEN \E f \in matching :
                   LET xs_mean_for_ip_i == listed.folder.files[f].xs_mean
                   IN  \* appended in the branch, and again after the if / else
                       /\ xs_mean_list' = xs_mean_list \o
                                             <<xs_mean_for_ip_i, xs_mean_for_ip_i>>
                       /\ zcFolder' = listed.folder
                       /\ zcLog' = Append(zcLog, [call |-> zcCall, input |-> i,
                                                  stored |-> stored, how |-> "loaded",
                                                  mean |-> xs_mean_for_ip_i])
           ELSE LET xs_mean_for_ip_i == MeanImageOf(all_train_files_for_ip_i, zcCall)
                    filename == <<zcCfg.list_file, i>>
                IN  /\ xs_mean_list' = Append(xs_mean_list, xs_mean_for_ip_i)
                    /\ zcFolder' =
                          [listed.folder EXCEPT !.files =
                              (filename :> Npz(all_train_files_for_ip_i, xs_mean_for_ip_i))
                                  @@ listed.folder.files]
                    /\ zcLog' = Append(zcLog, [call |-> zcCall, input |-> i,
                                               stored |-> stored, how |-> "computed",
                                               mean |-> xs_mean_for_ip_i])
    /\ zcInput' = zcInput + 1
    /\ UNCHANGED <<zcCfg, zcPc, zcCall, genVars, fnVars, meanVars, evalVars, logVars>>

\* return xs_mean
ZcReturn ==
    /\ zcPc = "loop"
    /\ zcInput = Len(zcCfg.train_files[1][1])
    /\ zcPc' = "returned"
    /\ UNCHANGED <<zcCfg, zcFolder, zcInput, xs_mean_list, zcCall, zcLog,
                   genVars, fnVars, meanVars, evalVars, logVars>>

\* load_zero_center_data is called again with the same cfg.
ZcCallAgain ==
    /\ zcPc = "returned"
    /\ zcCall < MaxCalls
    /\ zcCall' = zcCall + 1
    /\ zcInput' = 0
    /\ xs_mean_list' = <<>>
    /\ zcPc' = "loop"
    /\ UNCHANGED <<zcCfg, zcFolder, zcLog, genVars, fnVars, meanVars, evalVars, logVars>>

ZcNext == ZcHandleInput \/ ZcReturn \/ ZcCallAgain

\* load_zero_center_data called twice on one cfg and one zero_center_folder.
SpecZc == ZcInit /\ [][ZcNext]_vars

\* The path array of input i, read off the cfg.
TrainPathsOfInput(i) ==
    [j \in 1..Len(zcCfg.train_files) |-> zcCfg.train_files[j][1][i + 1]]

\* C4: the returned list holds exactly one mean image per model input, element i
\* being the mean image of input i's training files.
C4_OneMeanImagePerInput ==
    zcPc = "returned" =>
        /\ Len(xs_mean_list) = Len(zcCfg.train_files[1][1])
        /\ \A k \in 1..Len(xs_mean_list) :
               xs_mean_list[k].from = TrainPathsOfInput(k - 1)

\* C5: a saved mean image is reused for input i if and only if an .npz file of the
\* folder stores the path array of input i; a reused image is one stored with that
\* array; otherwise the mean is computed and is then stored with that array in
\* <list file basename>_i.npz; and a second call on the unchanged cfg computes
\* nothing.
C5_ReuseIffStoredPathsEqual ==
    \A k \in 1..Len(zcLog) :
        LET e == zcLog[k]
            name == <<zcCfg.list_file, e.input>>
        IN  /\ (e.how = "loaded") <=> e.stored
            /\ e.how = "loaded" => e.mean.from = TrainPathsOfInput(e.input)
            /\ e.how = "computed" =>
                   /\ zcFolder.isdir
                   /\ name \in DOMAIN zcFolder.files
                   /\ zcFolder.files[name] = Npz(TrainPathsOfInput(e.input), e.mean)
                   /\ e.mean.computedIn = e.call
            /\ e.call >= 2 => e.how = "loaded"

\* C5's case: the second call has returned after the first call computed the mean
\* of one input and loaded the mean of another.
C5_Witness ==
    /\ zcPc = "returned"
    /\ zcCall = 2
    /\ \E k \in 1..Len(zcLog) : zcLog[k].call = 1 /\ zcLog[k].how = "computed"
    /\ \E k \in 1..Len(zcLog) : zcLog[k].call = 1 /\ zcLog[k].how = "loaded"
    /\ \E k \in 1..Len(zcLog) :
           /\ zcLog[k].call = 2
           /\ zcLog[k].how = "loaded"
           /\ zcLog[k].mean.computedIn = 1

\* ------------------------------------------------ make_model_evaluation

\* Largest number of validation file sets.
MaxValFiles == 2

\* The arguments of the generator make_model_evaluation creates for a validation
\* file set of file_size samples: the cfg's batchsize, the default f_size=None,
\* zero_center_image=xs_mean and yield_mc_info=True; a single 4D input with
\* regression labels (y_true is a dict) and the cfg's swap of the 4D channels.
EvalGeneratorArgs(file_size, batchsize, swap_col) ==
    [fileLen |-> <<file_size>>, n_bins |-> <<<<2, 2, 2, 2>>>>, batchsize |-> batchsize,
     class_type |-> <<1, "energy_dir_bjorken-y_errors">>, str_ident |-> "",
     f_size |-> NoneSize, zero_center |-> TRUE, yield_mc_info |-> TRUE,
     swap_col |-> swap_col, ydata |-> 1]

\* The steps of one validation file set.
EvalSteps(file_size, batchsize, samples) ==
    IF samples = NoneSize
    THEN (file_size \div batchsize) + (IF file_size % batchsize /= 0 THEN 1 ELSE 0)
    ELSE samples \div batchsize

\* dataset[name] of an h5py dataset: a str index selects a field of a compound
\* dtype, and raises ValueError for a dtype without that field.
DatasetGetItem(fields, name) == IF name \in fields THEN "none" ELSE "ValueError"

\* The fields of the dtype of the datasets of the output file: the arrays handed to
\* create_dataset are plain float arrays.
OutputDtypeFields == {}

\* The else branch of the write: file_output[name].resize(
\* file_output[name][name].shape[0] + data.shape[0], axis=0), then the data is
\* written at the end.
ResizeAndAppend(dataset, name, data) ==
    IF DatasetGetItem(OutputDtypeFields, name) /= "none"
    THEN [raised |-> DatasetGetItem(OutputDtypeFields, name), dataset |-> dataset]
    ELSE [raised |-> "none", dataset |-> dataset \o data]

EvalInit ==
    /\ \E sizes \in UNION {[1..n -> 1..MaxRows] : n \in 1..MaxValFiles},
          b \in 1..MaxBatch, smp \in {NoneSize} \cup 1..MaxRows, sw \in {None, "yzt-x"} :
           evCfg = [file_sizes |-> sizes, batchsize |-> b, samples |-> smp,
                    swap_col |-> sw]
    /\ evalPc = "files"
    /\ f_number = 0
    /\ evSteps = 0
    /\ evStep = 0
    /\ datagroups_created = FALSE
    /\ written = <<>>
    /\ evalErr = <<>>
    /\ GenIdle
    /\ FnIdle
    /\ MeanIdle
    /\ ZcIdle
    /\ LogIdle

\* for f_number, files_dict in enumerate(cfg.yield_val_files()): the generator of
\* the file set is created and the number of steps is set.
EvalNextFile ==
    /\ evalPc = "files"
    /\ f_number < Len(evCfg.file_sizes)
    /\ LET file_size == evCfg.file_sizes[f_number + 1]
           args      == EvalGeneratorArgs(file_size, evCfg.batchsize, evCfg.swap_col)
       IN  /\ gArgs' = args
           /\ genPc' = "start"
           /\ f_size' = args.f_size
           /\ n_entries' = 0
           /\ out' = <<>>
           /\ genErr' = <<>>
           /\ pass' = 0
           /\ yieldsInPass' = 0
           /\ passYields' = <<>>
           /\ rowsRead' = {}
           /\ evSteps' = EvalSteps(file_size, evCfg.batchsize, evCfg.samples)
    /\ evStep' = 0
    /\ evalPc' = "steps"
    /\ UNCHANGED <<evCfg, f_number, datagroups_created, written, evalErr,
                   fnVars, meanVars, zcVars, logVars>>

\* for s in range(steps): next(generator) is called.
EvalCallNext ==
    /\ evalPc = "steps"
    /\ evStep < evSteps
    /\ evalPc' = "next"
    /\ genPc' = IF genPc = "yield" THEN "loop" ELSE genPc
    /\ UNCHANGED <<gArgs, f_size, n_entries, out, genErr, pass, yieldsInPass, passYields,
                   rowsRead, evCfg, f_number, evSteps, evStep, datagroups_created,
                   written, evalErr, fnVars, meanVars, zcVars, logVars>>

\* The generator runs inside next() until it yields or raises.
EvalGeneratorRuns ==
    /\ evalPc = "next"
    /\ (GenOpen \/ GenBatch \/ GenClose)
    /\ UNCHANGED <<evalVars, fnVars, meanVars, zcVars, logVars>>

\* The batch next() returned is predicted on and written: the first write creates
\* the datasets from the data, the later ones resize and append.
EvalWrite ==
    /\ evalPc = "next"
    /\ genPc = "yield"
    /\ LET mc_info == out[3]
           data    == [k \in 1..Len(mc_info) |-> <<f_number, mc_info[k][0]>>]
       IN  IF ~datagroups_created
           THEN /\ written' = data
                /\ datagroups_created' = TRUE
                /\ evStep' = evStep + 1
                /\ evalPc' = "steps"
                /\ UNCHANGED evalErr
           ELSE LET r == ResizeAndAppend(written, "mc_info", data)
                IN  IF r.raised /= "none"
                    THEN /\ evalPc' = "raised"
                         /\ evalErr' = <<r.raised, "resize">>
                         /\ UNCHANGED <<written, datagroups_created, evStep>>
                    ELSE /\ written' = r.dataset
                         /\ evStep' = evStep + 1
                         /\ evalPc' = "steps"
                         /\ UNCHANGED <<datagroups_created, evalErr>>
    /\ UNCHANGED <<genVars, evCfg, f_number, evSteps, fnVars, meanVars, zcVars, logVars>>

\* An exception of the generator leaves make_model_evaluation.
EvalGeneratorRaised ==
    /\ evalPc = "next"
    /\ genPc = "raised"
    /\ evalPc' = "raised"
    /\ evalErr' = genErr
    /\ UNCHANGED <<genVars, evCfg, f_number, evSteps, evStep, datagroups_created,
                   written, fnVars, meanVars, zcVars, logVars>>

\* The steps of a file set are done.
EvalFileDone ==
    /\ evalPc = "steps"
    /\ evStep = evSteps
    /\ f_number' = f_number + 1
    /\ evalPc' = "files"
    /\ UNCHANGED <<genVars, evCfg, evSteps, evStep, datagroups_created, written,
                   evalErr, fnVars, meanVars, zcVars, logVars>>

\* All file sets are done: the output file is closed.
EvalDone ==
    /\ evalPc = "files"
    /\ f_number = Len(evCfg.file_sizes)
    /\ evalPc' = "done"
    /\ UNCHANGED <<genVars, evCfg, f_number, evSteps, evStep, datagroups_created,
                   written, evalErr, fnVars, meanVars, zcVars, logVars>>

EvalNext ==
    \/ EvalNextFile
    \/ EvalCallNext
    \/ EvalGeneratorRuns
    \/ EvalWrite
    \/ EvalGeneratorRaised
    \/ EvalFileDone
    \/ EvalDone

\* make_model_evaluation on one or two validation file sets.
SpecEval == EvalInit /\ [][EvalNext]_vars

\* Every sample of every validation file, in file and row order.
RECURSIVE AllSamples(_, _)
AllSamples(sizes, f) ==
    IF f > Len(sizes) THEN <<>>
    ELSE [r \in 1..sizes[f] |-> <<f - 1, r - 1>>] \o AllSamples(sizes, f + 1)

\* C3: with samples=None make_model_evaluation ends normally with every sample of
\* every validation file written exactly once; step s of a file predicts on the rows
\* from s*batchsize up to the next multiple of the batchsize or the end of the file,
\* the last step being the smaller one.
C3_EverySampleWrittenOnce ==
    (evCfg.samples = NoneSize /\ evCfg.swap_col = None) =>
        /\ evalPc /= "raised"
        /\ (evalPc = "next" /\ genPc = "yield") =>
               LET size == evCfg.file_sizes[f_number + 1]
                   rows == Slice(size, evStep * evCfg.batchsize,
                                 (evStep + 1) * evCfg.batchsize)
               IN  [k \in 1..Len(out[3]) |-> out[3][k][0]] = rows
        /\ evalPc = "done" => written = AllSamples(evCfg.file_sizes, 1)


\* --------------------------------------------------------- get_modelname

\* Largest number of n_bins tuples (model inputs) of a get_modelname call.
MaxNBins == 2

\* str(dim) for dim = 4 - bins.count(1).
DimStr(dim) == ToString(dim)

\* The letters appended for a 2D/3D input: those of the dimensions with more than
\* one bin.
DimLetters(bins) ==
    (IF bins[1] > 1 THEN "x" ELSE "") \o (IF bins[2] > 1 THEN "y" ELSE "") \o
    (IF bins[3] > 1 THEN "z" ELSE "") \o (IF bins[4] > 1 THEN "t" ELSE "")

\* What one iteration of the loop over enumerate(n_bins) appends to projection; i is
\* the 0-based index of the enumeration.
ProjectionOfInput(i, bins, swap_4d_channels) ==
    (IF i > 0 THEN "_and_" ELSE "") \o DimStr(4 - CountOnes(bins)) \o "d_" \o
    (IF CountOnes(bins) = 0 /\ i = 0
     THEN IF swap_4d_channels /= None THEN swap_4d_channels
          ELSE IF bins[4] = 31 THEN "xyz-c" ELSE "xyz-t"
     ELSE DimLetters(bins))

\* projection after the first k iterations of the loop.
RECURSIVE Projection(_, _, _)
Projection(n_bins, k, swap_4d_channels) ==
    IF k = 0 THEN ""
    ELSE Projection(n_bins, k - 1, swap_4d_channels)
             \o ProjectionOfInput(k - 1, n_bins[k], swap_4d_channels)

\* get_modelname(n_bins, class_type, nn_arch, swap_4d_channels, str_ident).
GetModelname(n_bins, class_type, nn_arch, swap_4d_channels, str_ident) ==
    "model_" \o nn_arch \o "_"
        \o Projection(n_bins, Len(n_bins), swap_4d_channels) \o "_" \o class_type[2]
        \o (IF str_ident /= "" THEN "_" \o str_ident ELSE str_ident)

\* The n_bins tuples a name is derived for: 3D, 2D and 4D projections, one of the 4D
\* ones with 31 bins in its last dimension.
NameBins ==
    {<<11, 13, 18, 1>>, <<1, 13, 18, 60>>, <<11, 13, 1, 1>>, <<11, 13, 18, 60>>,
     <<11, 13, 18, 31>>}

NameNBins == UNION {[1..n -> NameBins] : n \in 1..MaxNBins}

NameInit ==
    /\ \E n_bins \in NameNBins,
          class_type \in {<<2, "muon-CC_to_elec-CC">>, <<2, "up_down">>},
          nn_arch \in {"VGG", "WRN"},
          swap_4d_channels \in {None, "yzt-x"},
          str_ident \in {"", "v2"} :
           fnArgs = [n_bins |-> n_bins, class_type |-> class_type, nn_arch |-> nn_arch,
                     swap_4d_channels |-> swap_4d_channels, str_ident |-> str_ident]
    /\ fnPc = "call"
    /\ fnRet = <<>>
    /\ GenIdle
    /\ MeanIdle
    /\ ZcIdle
    /\ EvalIdle
    /\ LogIdle

CallGetModelname ==
    /\ fnPc = "call"
    /\ fnRet' = GetModelname(fnArgs.n_bins, fnArgs.class_type, fnArgs.nn_arch,
                             fnArgs.swap_4d_channels, fnArgs.str_ident)
    /\ fnPc' = "returned"
    /\ UNCHANGED <<fnArgs, genVars, meanVars, zcVars, evalVars, logVars>>

NameNext == CallGetModelname

\* get_modelname called on lists of up to MaxNBins n_bins tuples.
SpecName == NameInit /\ [][NameNext]_vars

\* The name the claim describes: 'model_', per n_bins entry 'Nd_' and the letters of
\* the dimensions with more than one bin (entries joined by '_and_'), '_' +
\* class_type[1], and '_' + str_ident when str_ident is not empty.
RECURSIVE ClaimedProjection(_, _)
ClaimedProjection(n_bins, k) ==
    IF k = 0 THEN ""
    ELSE ClaimedProjection(n_bins, k - 1) \o (IF k > 1 THEN "_and_" ELSE "")
             \o DimStr(4 - CountOnes(n_bins[k])) \o "d_" \o DimLetters(n_bins[k])

ClaimedModelname(n_bins, class_type, str_ident) ==
    "model_" \o ClaimedProjection(n_bins, Len(n_bins)) \o "_" \o class_type[2]
        \o (IF str_ident /= "" THEN "_" \o str_ident ELSE "")

\* C12: get_modelname returns 'model_Nd_proj_class_type[1]', with N = 4 minus the
\* number of bins equal to 1 and proj the letters of the dimensions with more than
\* one bin for each n_bins entry, followed by '_' + str_ident only when str_ident is
\* not empty; a single (x, y, z, 1) input with class_type (2, 'muon-CC_to_elec-CC')
\* gives 'model_3d_xyz_muon-CC_to_elec-CC'.
C12_ModelnameForm ==
    fnPc = "returned" =>
        fnRet = ClaimedModelname(fnArgs.n_bins, fnArgs.class_type, fnArgs.str_ident)


\* ------------------------------------------- BatchLevelPerformanceLogger

\* Largest number of on_batch_end calls followed.
MaxLogBatches == 4

\* Largest display (batches per logged line) and largest flush_after_n_lines.
MaxDisplay == 3

MaxFlush == 3

\* The value logs.get(metric) of a batch, for the one metric 'loss'.
LossValues == {1, 2}

\* The constructor's arguments: display, flush_after_n_lines, epoch and train_files
\* as the sequence of the files' f_size (one file that holds MaxLogBatches batches).
LogArgs ==
    [display    : 1..MaxDisplay,
     flush      : {0 - 1} \cup 1..MaxFlush,
     epoch      : {<<1, 1>>},
     batchsize  : {1},
     train_files : {<<MaxLogBatches>>}]

\* steps_cum of __init__: [0] followed by the running sum of int(f_size / batchsize).
RECURSIVE StepsCum(_, _, _)
StepsCum(train_files, batchsize, k) ==
    IF k = 0 THEN <<0>>
    ELSE LET before == StepsCum(train_files, batchsize, k - 1)
         IN  Append(before, before[Len(before)] + (train_files[k] \div batchsize))

\* steps_per_total_epoch of __init__.
StepsPerTotalEpoch(train_files, batchsize) ==
    StepsCum(train_files, batchsize, Len(train_files))[Len(train_files) + 1]

\* The header line __init__ writes to the newly opened file.
LogHeader == [text |-> "Batch\tBatch_float\tloss"]

\* The statistics line of on_batch_end. batchnumber_float and the mean of the metric
\* are kept as exact fractions <<numerator, denominator>>:
\* (seen - display / 2.) / steps_per_total_epoch + epoch_number - 1
\*     + steps_cum[f_number - 1] / steps_per_total_epoch.
StatisticsLine(cfg, n_seen, cum) ==
    LET total == StepsPerTotalEpoch(cfg.train_files, cfg.batchsize)
        cumOffset == StepsCum(cfg.train_files, cfg.batchsize, Len(cfg.train_files))[cfg.epoch[2]]
    IN  [seen |-> n_seen,
         batchnumber_float |->
             <<2 * n_seen - cfg.display + 2 * cumOffset + 2 * total * (cfg.epoch[1] - 1),
               2 * total>>,
         loss |-> <<cum, cfg.display>>]

\* The test of on_batch_end that decides whether the buffered lines are written:
\* self.flush != -1 and self.display % self.flush == 0.
FlushNow(flush, display) == flush /= 0 - 1 /\ display % flush = 0

\* __init__: the counters are reset and the log file is opened with 'w' and gets the
\* header.
LogConstruct(cfg) ==
    /\ lgCfg = cfg
    /\ lgPc = "training"
    /\ seen = 0
    /\ cum_metrics = 0
    /\ loglist = <<>>
    /\ logfile_train = <<LogHeader>>

LogInit ==
    /\ \E cfg \in LogArgs : LogConstruct(cfg)
    /\ GenIdle
    /\ FnIdle
    /\ MeanIdle
    /\ ZcIdle
    /\ EvalIdle

\* on_batch_end(batch, logs).
OnBatchEnd ==
    /\ lgPc = "training"
    /\ seen < MaxLogBatches
    /\ \E loss \in LossValues :
        LET n_seen == seen + 1
            cum    == cum_metrics + loss
        IN  /\ seen' = n_seen
            /\ IF n_seen % lgCfg.display = 0
               THEN LET appended == Append(loglist, StatisticsLine(lgCfg, n_seen, cum))
                    IN  /\ cum_metrics' = 0
                        /\ IF FlushNow(lgCfg.flush, lgCfg.display)
                           THEN /\ logfile_train' = logfile_train \o appended
                                /\ loglist' = <<>>
                           ELSE /\ loglist' = appended
                                /\ UNCHANGED logfile_train
               ELSE /\ cum_metrics' = cum
                    /\ UNCHANGED <<loglist, logfile_train>>
    /\ UNCHANGED <<lgCfg, lgPc, genVars, fnVars, meanVars, zcVars, evalVars>>

\* on_epoch_end(batch, logs): the buffered lines are appended to the file; loglist is
\* not emptied.
OnEpochEnd ==
    /\ lgPc = "training"
    /\ logfile_train' = logfile_train \o loglist
    /\ lgPc' = "epoch_end"
    /\ UNCHANGED <<lgCfg, seen, cum_metrics, loglist, genVars, fnVars, meanVars, zcVars,
                   evalVars>>

LogNext == OnBatchEnd \/ OnEpochEnd

\* One logger from its construction over the batches of a file to on_epoch_end.
SpecLog == LogInit /\ [][LogNext]_vars

\* Statistics lines logged so far and statistics lines in the file.
LinesLogged == seen \div lgCfg.display

LinesInFile == Len(logfile_train) - 1

\* C13: with flush_after_n_lines = n > 0 the buffered statistics lines are written
\* to the training log file after every n logged lines (the file holds the lines up
\* to the last multiple of n), and with flush_after_n_lines = -1 no statistics line
\* is in the file before on_epoch_end.
C13_FlushAfterEveryNLines ==
    lgPc = "training" =>
        /\ lgCfg.flush > 0 => LinesInFile = lgCfg.flush * (LinesLogged \div lgCfg.flush)
        /\ lgCfg.flush = 0 - 1 => LinesInFile = 0


\* ------------------------------------------- parallelize_model_to_n_gpus

\* Largest number of GPUs asked for.
MaxGpus == 3

\* A Python number num / den of the type int or float.
PyInt(k) == [type |-> "int", num |-> k, den |-> 1]

PyFloat(num, den) == [type |-> "float", num |-> num, den |-> den]

\* x == k, x > k and x < k for a Python number x and an int k; int and float compare by
\* value.
PyEq(x, k) == x.num = k * x.den

PyGt(x, k) == x.num > k * x.den

PyLt(x, k) == x.num < k * x.den

\* isinstance(x, int).
IsInstanceInt(x) == x.type = "int"

\* The values of n_gpu[0]: the ints -1..MaxGpus and the floats 0.5, 1.0, 1.5, 2.0.
NGpuValues ==
    {PyInt(k) : k \in (0 - 1)..MaxGpus}
        \cup {PyFloat(1, 2), PyFloat(2, 2), PyFloat(3, 2), PyFloat(4, 2)}

GpuName(i) == "/gpu:" \o ToString(i)

\* What get_available_gpus may return when asked for n GPUs: the first k GPUs of the
\* machine, k <= n.
AvailableGpus(n) == {[i \in 1..k |-> GpuName(i - 1)] : k \in 0..n}

\* A Keras model: how it came to be, the GPUs make_parallel spread it over, and the
\* compile calls made on it.
Model(origin, source) == [origin |-> origin, source |-> source, gpus |-> <<>>, compiles |-> 0]

\* make_parallel(model, gpus_list, ...).
MakeParallel(model, gpus_list) == [model EXCEPT !.gpus = gpus_list]

\* model.compile(...).
Compile(model) == [model EXCEPT !.compiles = @ + 1]

\* parallelize_model_to_n_gpus(model, n_gpu, batchsize, ...); gpus_list is what
\* get_available_gpus(n_gpu[0]) returns.
ParallelizeModelToNGpus(model, n_gpu, batchsize, gpus_list) ==
    IF n_gpu[2] = "avolkov" THEN
        IF PyEq(n_gpu[1], 1)
        THEN [raised |-> "none", model |-> model, batchsize |-> batchsize]
        ELSE IF ~(PyGt(n_gpu[1], 1) /\ IsInstanceInt(n_gpu[1]))
             THEN [raised |-> "AssertionError", model |-> model, batchsize |-> batchsize]
             ELSE [raised |-> "none",
                   model |-> Compile(MakeParallel(model, gpus_list)),
                   batchsize |-> batchsize * Len(gpus_list)]
    ELSE [raised |-> "ValueError", model |-> model, batchsize |-> batchsize]

ParInit ==
    /\ \E n \in NGpuValues, mode \in {"avolkov", "horovod"}, batchsize \in 1..MaxBatch,
          origin \in {"built", "loaded"} :
           fnArgs = [model |-> Model(origin, "VGG"), n_gpu |-> <<n, mode>>,
                     batchsize |-> batchsize]
    /\ fnPc = "call"
    /\ fnRet = <<>>
    /\ GenIdle
    /\ MeanIdle
    /\ ZcIdle
    /\ EvalIdle
    /\ LogIdle

CallParallelizeModelToNGpus ==
    /\ fnPc = "call"
    /\ \E gpus_list \in AvailableGpus(IF IsInstanceInt(fnArgs.n_gpu[1]) /\ fnArgs.n_gpu[1].num > 0
                                      THEN fnArgs.n_gpu[1].num ELSE 0) :
           fnRet' = ParallelizeModelToNGpus(fnArgs.model, fnArgs.n_gpu, fnArgs.batchsize,
                                            gpus_list) @@ [gpus_list |-> gpus_list]
    /\ fnPc' = "returned"
    /\ UNCHANGED <<fnArgs, genVars, meanVars, zcVars, evalVars, logVars>>

ParNext == CallParallelizeModelToNGpus

\* parallelize_model_to_n_gpus called with every n_gpu[0] of NGpuValues.
SpecPar == ParInit /\ [][ParNext]_vars

\* C15: parallelize_model_to_n_gpus returns the model and the batchsize unchanged
\* for n_gpu = (1, 'avolkov'); for n_gpu[0] > 1 it returns the parallelized,
\* recompiled model and the batchsize times the number of GPUs get_available_gpus
\* returned; it raises ValueError for every mode other than 'avolkov', also for
\* n_gpu[0] = 1; and it fails its assertion for n_gpu[0] < 1 or an n_gpu[0] that is
\* not an int.
C15_ParallelizeContract ==
    fnPc = "returned" =>
        LET n    == fnArgs.n_gpu[1]
            mode == fnArgs.n_gpu[2]
        IN  /\ mode /= "avolkov" => fnRet.raised = "ValueError"
            /\ (mode = "avolkov" /\ n = PyInt(1)) =>
                   /\ fnRet.raised = "none"
                   /\ fnRet.model = fnArgs.model
                   /\ fnRet.batchsize = fnArgs.batchsize
            /\ (mode = "avolkov" /\ IsInstanceInt(n) /\ PyGt(n, 1)) =>
                   /\ fnRet.raised = "none"
                   /\ fnRet.model.gpus = fnRet.gpus_list
                   /\ fnRet.model.compiles = fnArgs.model.compiles + 1
                   /\ fnRet.batchsize = fnArgs.batchsize * Len(fnRet.gpus_list)
            /\ (mode = "avolkov" /\ (PyLt(n, 1) \/ ~IsInstanceInt(n))) =>
                   fnRet.raised = "AssertionError"


\* ------------------------------------------------ build_or_load_nn_model

\* Largest epoch number and file number of the epoch tuple.
MaxEpoch == 2

\* The str_ident values used, and the test 'multi_input_single_train' in str_ident.
StrIdents == {"", "multi_input_single_train_tight-1_tight-2"}

ContainsMultiInputSingleTrain(str_ident) ==
    str_ident = "multi_input_single_train_tight-1_tight-2"

\* build_nn_model(nn_arch, n_bins, class_type, swap_4d_channels, str_ident): the
\* model is named by the function that creates it.
BuildNnModel(nn_arch, str_ident) ==
    IF nn_arch = "WRN"
    THEN [raised |-> "none", model |-> Model("built", "create_wide_residual_network")]
    ELSE IF nn_arch = "VGG"
         THEN IF ContainsMultiInputSingleTrain(str_ident)
              THEN [raised |-> "none",
                    model |-> Model("built", "create_vgg_like_model_multi_input_from_single_nns")]
              ELSE [raised |-> "none", model |-> Model("built", "create_vgg_like_model")]
         ELSE [raised |-> "ValueError", model |-> <<>>]

\* path_of_model of build_or_load_nn_model.
PathOfModel(folder_name, epoch) ==
    folder_name \o "/saved_models/model_epoch_" \o ToString(epoch[1]) \o "_file_"
        \o ToString(epoch[2]) \o ".h5"

\* ks.models.load_model(path_of_model, ...): saved_models is the set of the paths of
\* the checkpoints on disk; a missing file raises OSError.
LoadModel(path_of_model, saved_models) ==
    IF path_of_model \in saved_models
    THEN [raised |-> "none", model |-> Model("loaded", path_of_model)]
    ELSE [raised |-> "OSError", model |-> <<>>]

\* One call made by build_or_load_nn_model.
Call(fn, arg) == [fn |-> fn, arg |-> arg]

\* The rest of build_or_load_nn_model after the model was built or loaded:
\* get_optimizer_info, parallelize_model_to_n_gpus, summary, and compile for a new
\* model. calls are the calls made so far.
ParallelizeAndReturn(first, calls, build_new, n_gpu, batchsize, gpus_list) ==
    IF first.raised /= "none"
    THEN [raised |-> first.raised, calls |-> calls, model |-> <<>>]
    ELSE LET par    == ParallelizeModelToNGpus(first.model, n_gpu, batchsize, gpus_list)
             calls2 == calls \o <<Call("get_optimizer_info", "adam"),
                                  Call("parallelize_model_to_n_gpus", n_gpu[2])>>
         IN  IF par.raised /= "none"
             THEN [raised |-> par.raised, calls |-> calls2, model |-> <<>>]
             ELSE [raised |-> "none",
                   calls |-> calls2 \o <<Call("summary", "")>>
                                 \o (IF build_new THEN <<Call("compile", "")>> ELSE <<>>),
                   model |-> IF build_new THEN Compile(par.model) ELSE par.model]

\* A build-or-load decision that also builds when the file number epoch[1] is 0.
BuildOrLoadOnAnyZero(epoch, folder_name, nn_arch, str_ident, n_gpu, batchsize, gpus_list, saved_models) ==
    IF epoch[1] = 0 \/ epoch[2] = 0
    THEN ParallelizeAndReturn(BuildNnModel(nn_arch, str_ident),
                              <<Call("build_nn_model", nn_arch)>>, TRUE,
                              n_gpu, batchsize, gpus_list)
    ELSE ParallelizeAndReturn(LoadModel(PathOfModel(folder_name, epoch), saved_models),
                              <<Call("load_model", PathOfModel(folder_name, epoch))>>, FALSE,
                              n_gpu, batchsize, gpus_list)

\* build_or_load_nn_model(epoch, folder_name, nn_arch, n_bins, class_type,
\* swap_4d_channels, str_ident, loss_opt, n_gpu, batchsize).
BuildOrLoadNnModel(epoch, folder_name, nn_arch, str_ident, n_gpu, batchsize, gpus_list, saved_models) ==
    IF epoch[1] = 0
    THEN ParallelizeAndReturn(BuildNnModel(nn_arch, str_ident),
                              <<Call("build_nn_model", nn_arch)>>, epoch[1] = 0,
                              n_gpu, batchsize, gpus_list)
    ELSE ParallelizeAndReturn(LoadModel(PathOfModel(folder_name, epoch), saved_models),
                              <<Call("load_model", PathOfModel(folder_name, epoch))>>,
                              epoch[1] = 0, n_gpu, batchsize, gpus_list)

\* The folder of the run and the checkpoints that may be on disk.
FolderNames == {"user/trained_models/model_VGG"}

SavedModelSets ==
    SUBSET {PathOfModel(f, <<1, 1>>) : f \in FolderNames}
        \cup {{PathOfModel(f, e) : e \in (0..MaxEpoch) \X (0..MaxEpoch)} : f \in FolderNames}

BuildInit ==
    /\ \E epoch \in (0..MaxEpoch) \X (0..MaxEpoch), folder_name \in FolderNames,
          nn_arch \in {"WRN", "VGG", "RNN"}, str_ident \in StrIdents,
          n_gpu \in {<<PyInt(1), "avolkov">>, <<PyInt(2), "avolkov">>, <<PyInt(1), "horovod">>},
          saved_models \in SavedModelSets :
           fnArgs = [epoch |-> epoch, folder_name |-> folder_name, nn_arch |-> nn_arch,
                     str_ident |-> str_ident, n_gpu |-> n_gpu, batchsize |-> 1,
                     saved_models |-> saved_models]
    /\ fnPc = "call"
    /\ fnRet = <<>>
    /\ GenIdle
    /\ MeanIdle
    /\ ZcIdle
    /\ EvalIdle
    /\ LogIdle

CallBuildOrLoadNnModel ==
    /\ fnPc = "call"
    /\ \E gpus_list \in AvailableGpus(fnArgs.n_gpu[1].num) :
           fnRet' = BuildOrLoadNnModel(fnArgs.epoch, fnArgs.folder_name, fnArgs.nn_arch,
                                       fnArgs.str_ident, fnArgs.n_gpu, fnArgs.batchsize,
                                       gpus_list, fnArgs.saved_models)
                        @@ [gpus_list |-> gpus_list]
    /\ fnPc' = "returned"
    /\ UNCHANGED <<fnArgs, genVars, meanVars, zcVars, evalVars, logVars>>

BuildNext == CallBuildOrLoadNnModel

\* build_or_load_nn_model called for every epoch tuple of 0..MaxEpoch.
SpecBuild == BuildInit /\ [][BuildNext]_vars

\* The calls of a function among the calls made.
CallsOf(calls, fn) == {i \in 1..Len(calls) : calls[i].fn = fn}

\* C14: build_or_load_nn_model builds a new model if and only if epoch[0] == 0,
\* whatever epoch[1] is; for every other epoch it loads the checkpoint
\* folder_name + '/saved_models/model_epoch_<epoch[0]>_file_<epoch[1]>.h5' and
\* builds nothing; in both cases the model is then passed through
\* parallelize_model_to_n_gpus and returned.
C14_BuildIffEpochZero ==
    fnPc = "returned" =>
        LET epoch == fnArgs.epoch
            calls == fnRet.calls
            path  == fnArgs.folder_name \o "/saved_models/model_epoch_"
                         \o ToString(epoch[1]) \o "_file_" \o ToString(epoch[2]) \o ".h5"
        IN  /\ (CallsOf(calls, "build_nn_model") /= {}) <=> (epoch[1] = 0)
            /\ epoch[1] = 0 => CallsOf(calls, "load_model") = {}
            /\ epoch[1] /= 0 => calls[1] = Call("load_model", path)
            /\ fnRet.raised = "none" =>
                   /\ CallsOf(calls, "parallelize_model_to_n_gpus") = {3}
                   /\ fnRet.model.origin = (IF epoch[1] = 0 THEN "built" ELSE "loaded")
                   /\ epoch[1] /= 0 => fnRet.model.source = path
                   /\ fnRet.model.gpus =
                          (IF fnArgs.n_gpu[1] = PyInt(1) THEN <<>> ELSE fnRet.gpus_list)

\* C14's case: a checkpoint of epoch 1 with file number 0 was loaded, parallelized to
\* two GPUs and returned.
C14_Witness ==
    /\ fnPc = "returned"
    /\ fnArgs.epoch = <<1, 0>>
    /\ fnRet.raised = "none"
    /\ fnRet.model.origin = "loaded"
    /\ Len(fnRet.model.gpus) = 2


\* ---------------------------------------------------- read_out_list_file

\* Largest number of inputs of a list file, and largest number of files of an input.
MaxListInputs == 2

MaxListFiles == 2

\* The input names of a list file, in file order.
InputKey(i) == "input_" \o ToString(i)

\* The paths a list file may name.
TrainPaths == {"train_a.h5", "train_b.h5"}

ValPaths == {"val_a.h5"}

\* The lists of up to MaxListFiles paths.
PathLists(paths) == UNION {[1..n -> paths] : n \in 0..MaxListFiles}

\* toml.load(file): the inputs in file order, each with its name and its two lists.
FileContents ==
    UNION {[1..n -> [train_files : PathLists(TrainPaths),
                     validation_files : PathLists(ValPaths)]] : n \in 1..MaxListInputs}

\* tuple(list).
Tuple(list) == [type |-> "tuple", items |-> list]

\* list.count(value).
Count(list, value) == Cardinality({i \in 1..Len(list) : list[i] = value})

\* The state of the loop over the inputs after its first k iterations.
RECURSIVE ListLoop(_, _)
ListLoop(file_content, k) ==
    IF k = 0
    THEN [train_files |-> <<>>, validation_files |-> <<>>, n_train |-> <<>>, n_val |-> <<>>]
    ELSE LET before    == ListLoop(file_content, k - 1)
             input_key == InputKey(k)
             train     == Tuple(file_content[k].train_files)
             val       == Tuple(file_content[k].validation_files)
         IN  [train_files      |-> (input_key :> train) @@ before.train_files,
              validation_files |-> (input_key :> val) @@ before.validation_files,
              n_train          |-> Append(before.n_train, Len(train.items)),
              n_val            |-> Append(before.n_val, Len(val.items))]

\* A read-out that compares only the numbers of training files.
ReadOutListFileTrainOnly(file_content) ==
    LET loop == ListLoop(file_content, Len(file_content))
    IN  IF Count(loop.n_train, loop.n_train[1]) /= Len(loop.n_train)
        THEN [raised |-> "AssertionError", train_files |-> <<>>, validation_files |-> <<>>]
        ELSE [raised |-> "none", train_files |-> loop.train_files,
              validation_files |-> loop.validation_files]

\* read_out_list_file(file), for the content toml.load returns.
ReadOutListFile(file_content) ==
    LET loop == ListLoop(file_content, Len(file_content))
    IN  IF Count(loop.n_train, loop.n_train[1]) /= Len(loop.n_train)
        THEN [raised |-> "AssertionError", train_files |-> <<>>, validation_files |-> <<>>]
        ELSE IF Count(loop.n_val, loop.n_val[1]) /= Len(loop.n_val)
             THEN [raised |-> "AssertionError", train_files |-> <<>>,
                   validation_files |-> <<>>]
             ELSE [raised |-> "none", train_files |-> loop.train_files,
                   validation_files |-> loop.validation_files]

ListInit ==
    /\ \E file_content \in FileContents : fnArgs = [file_content |-> file_content]
    /\ fnPc = "call"
    /\ fnRet = <<>>
    /\ GenIdle
    /\ MeanIdle
    /\ ZcIdle
    /\ EvalIdle
    /\ LogIdle

CallReadOutListFile ==
    /\ fnPc = "call"
    /\ fnRet' = ReadOutListFile(fnArgs.file_content)
    /\ fnPc' = "returned"
    /\ UNCHANGED <<fnArgs, genVars, meanVars, zcVars, evalVars, logVars>>

ListNext == CallReadOutListFile

\* read_out_list_file called on every list file of up to MaxListInputs inputs.
SpecList == ListInit /\ [][ListNext]_vars

\* Two inputs of the list file differ in their number of training files or in their
\* number of validation files.
NumbersDiffer(file_content) ==
    \E i, j \in DOMAIN file_content :
        \/ Len(file_content[i].train_files) /= Len(file_content[j].train_files)
        \/ Len(file_content[i].validation_files) /= Len(file_content[j].validation_files)

\* C16: for a list file with at least one input read_out_list_file raises
\* AssertionError if and only if two inputs have a different number of training
\* files or of validation files; otherwise it returns a train dict and a validation
\* dict with exactly the file's input names as keys and, per key, the tuple of its
\* paths in file order.
C16_AssertEqualNumbersElseDicts ==
    fnPc = "returned" =>
        LET file_content == fnArgs.file_content
            names == {InputKey(i) : i \in DOMAIN file_content}
        IN  /\ (fnRet.raised = "AssertionError") <=> NumbersDiffer(file_content)
            /\ ~NumbersDiffer(file_content) =>
                   /\ fnRet.raised = "none"
                   /\ DOMAIN fnRet.train_files = names
                   /\ DOMAIN fnRet.validation_files = names
                   /\ \A i \in DOMAIN file_content :
                          /\ fnRet.train_files[InputKey(i)].type = "tuple"
                          /\ fnRet.train_files[InputKey(i)].items
                                 = file_content[i].train_files
                          /\ fnRet.validation_files[InputKey(i)].type = "tuple"
                          /\ fnRet.validation_files[InputKey(i)].items
                                 = file_content[i].validation_files

\* C16's case: two inputs with the same number of training files and different
\* numbers of validation files were read, and the assertion failed.
C16_Witness ==
    /\ fnPc = "returned"
    /\ Len(fnArgs.file_content) = 2
    /\ Len(fnArgs.file_content[1].train_files) = Len(fnArgs.file_content[2].train_files)
    /\ Len(fnArgs.file_content[1].validation_files)
           /= Len(fnArgs.file_content[2].validation_files)
    /\ fnRet.raised = "AssertionError"

====
